---- MODULE Spec2Model ----
(***************************************************************************)
(* zellij-autolock: the plugin's State (src/main.rs) as a state machine.   *)
(* One action per host event handled by ZellijPlugin::update and           *)
(* ZellijPlugin::pipe, plus the host side every handler talks to: the       *)
(* one-shot timers requested with set_timeout, the list_clients requests   *)
(* still to be answered, the host's real input mode and the ModeUpdate      *)
(* notifications it has not delivered yet.                                  *)
(*                                                                         *)
(* Strings are sequences of one-character strings, so that trim,           *)
(* split_whitespace and split('/') are computed as the code computes them. *)
(* An Option is a set with at most one element.                            *)
(***************************************************************************)
EXTENDS Integers, Sequences, FiniteSets, TLC

\* ------------------------------------------------------------------ bounds
MaxTab == 1
MaxPane == 2
MaxTimers == 2
MaxPending == 2
MaxModeQueue == 2
MaxCmdLen == 3
MaxConfigLen == 3

\* ------------------------------------------------------- program constants
\* usize::MAX and u32::MAX, the "unset" markers of TabPane: the largest value
\* TLC represents stands for both.
usize_MAX == 2147483647
u32_MAX == 2147483647

\* Tab positions and pane ids the host reports.
Tabs == 0..MaxTab
PaneIds == 1..MaxPane

\* InputMode: the managed pair and one mode outside it.
InputMode == {"Normal", "Locked", "Pane"}

NoSwitch == "none"

\* ------------------------------------------------------------------ strings
NA == <<"N", "/", "A">>
Vim == <<"v", "i", "m">>
Nvim == <<"n", "v", "i", "m">>
Ls == <<"l", "s">>
Blank == <<" ">>
Empty == <<>>
UsrBinVimFile == <<"/", "u", "s", "r", "/", "b", "i", "n", "/", "v", "i", "m",
                   " ", "f", "i", "l", "e", ".", "t", "x", "t">>

\* What the host may report as a client's running command.
Commands == {NA, UsrBinVimFile, Ls, Blank}

\* char::is_whitespace over the modelled alphabet.
IsWhitespace(ch) == ch = " "

RECURSIVE TrimStart(_)
TrimStart(s) ==
    IF s # <<>> /\ IsWhitespace(Head(s)) THEN TrimStart(Tail(s)) ELSE s

RECURSIVE TrimEnd(_)
TrimEnd(s) ==
    IF s # <<>> /\ IsWhitespace(s[Len(s)])
    THEN TrimEnd(SubSeq(s, 1, Len(s) - 1))
    ELSE s

\* str::trim
Trim(s) == TrimEnd(TrimStart(s))

\* str::split_whitespace: the non-empty maximal runs of non-whitespace.
RECURSIVE SplitWs(_, _, _)
SplitWs(s, cur, acc) ==
    IF s = <<>>
    THEN IF cur = <<>> THEN acc ELSE Append(acc, cur)
    ELSE IF IsWhitespace(Head(s))
         THEN SplitWs(Tail(s), <<>>, IF cur = <<>> THEN acc ELSE Append(acc, cur))
         ELSE SplitWs(Tail(s), Append(cur, Head(s)), acc)

split_whitespace(s) == SplitWs(s, <<>>, <<>>)

\* str::split('/'): every segment, the empty ones too; never an empty list.
RECURSIVE SplitOn(_, _, _, _)
SplitOn(s, sep, cur, acc) ==
    IF s = <<>>
    THEN Append(acc, cur)
    ELSE IF Head(s) = sep
         THEN SplitOn(Tail(s), sep, <<>>, Append(acc, cur))
         ELSE SplitOn(Tail(s), sep, Append(cur, Head(s)), acc)

split(s, sep) == SplitOn(s, sep, <<>>, <<>>)

\* Iterator::last().unwrap_or("")
LastOr(seq, dflt) == IF seq = <<>> THEN dflt ELSE seq[Len(seq)]

\* Vec::contains
Contains(vec, x) == \E i \in 1..Len(vec) : vec[i] = x

\* ------------------------------------------------------------------- state
VARIABLES
    is_enabled,              \* State.is_enabled
    lock_trigger_cmds,       \* State.lock_trigger_cmds
    timer_scheduled,         \* State.timer_scheduled
    latest_tab_pane,         \* State.latest_tab_pane: [tab_pos, pane_id]
    latest_mode,             \* State.latest_mode
    latest_running_command,  \* State.latest_running_command
    panicked,                \* a handler panicked: the plugin is gone
    timers,                  \* host: set_timeout requests that have not fired
    pending_list_clients,    \* host: list_clients requests not yet answered
    host_mode,               \* host: the input mode the session is really in
    mode_updates,            \* host: ModeUpdate notifications not yet delivered
    mode_writer,             \* who set host_mode last: "host", "user", "plugin"
    pane_command,            \* host: the running command of the focused pane
    quiet,                   \* the user has stopped producing events
    out                      \* the event just handled and the host calls it made

vars == <<is_enabled, lock_trigger_cmds, timer_scheduled, latest_tab_pane,
          latest_mode, latest_running_command, panicked, timers,
          pending_list_clients, host_mode, mode_updates, mode_writer,
          pane_command, quiet, out>>

plugin_vars == <<is_enabled, lock_trigger_cmds, timer_scheduled, latest_tab_pane,
                 latest_mode, latest_running_command>>

\* The record of one step: the event, its payload, and the calls of the
\* handler: the switch_to_input_mode target, and how often list_clients and
\* set_timeout were called.
Out(kind, arg, sw, lc, st) ==
    [kind |-> kind, arg |-> arg, switch |-> sw, list_clients |-> lc, set_timeout |-> st]

DefaultTriggers == <<Vim, Nvim>>

\* State::default, then load() with a configuration that may set is_enabled.
Init ==
    /\ is_enabled \in BOOLEAN
    /\ lock_trigger_cmds = DefaultTriggers
    /\ timer_scheduled = FALSE
    /\ latest_tab_pane = [tab_pos |-> usize_MAX, pane_id |-> u32_MAX]
    /\ latest_mode = "Normal"
    /\ latest_running_command = Empty
    /\ panicked = FALSE
    /\ timers = 0
    /\ pending_list_clients = 0
    /\ host_mode = "Normal"
    /\ mode_updates = <<>>
    /\ mode_writer = "host"
    /\ pane_command \in Commands
    /\ quiet = FALSE
    /\ out = Out("load", <<>>, NoSwitch, 0, 0)

\* ------------------------------------------------------------ pure helpers
\* An Option<T> over S: None is {}, Some(x) is {x}.
Option(S) == {{}} \cup {{x} : x \in S}

\* start_timer without its timer_scheduled test.
start_timer_unguarded(enabled, scheduled) == enabled

\* State::start_timer: TRUE when it calls set_timeout (and sets the flag).
start_timer(enabled, scheduled) == enabled /\ ~scheduled

\* get_focused_tab(&tab_info): the position of the active tab, if any; the
\* payload is modelled by that Option.
get_focused_tab(tab_info) == tab_info

\* get_focused_pane looking through every tab: the focused pane of the first
\* tab that lists one.
get_focused_pane_any_tab(tab_pos, pane_manifest) ==
    LET listing == {t \in DOMAIN pane_manifest : pane_manifest[t] # {}}
    IN IF listing = {} THEN {}
       ELSE pane_manifest[CHOOSE t \in listing : \A u \in listing : t <= u]

\* get_focused_pane(tab_pos, &pane_manifest): the focused pane listed under
\* tab_pos; a manifest maps each tab position to its focused pane, if any.
get_focused_pane(tab_pos, pane_manifest) ==
    IF tab_pos \in DOMAIN pane_manifest THEN pane_manifest[tab_pos] ELSE {}

\* clients.iter().find(|c| c.is_current_client && !c.running_command.is_empty())
RECURSIVE FindFrom(_, _)
FindFrom(clients, i) ==
    IF i > Len(clients) THEN {}
    ELSE IF clients[i].is_current_client /\ clients[i].running_command # Empty
         THEN {clients[i]}
         ELSE FindFrom(clients, i + 1)

find_current_client(clients) == FindFrom(clients, 1)

\* The ListClients handler without its is_enabled test.
inspected_client_ungated(enabled, clients) == find_current_client(clients)

\* The client the ListClients handler goes on with: none when disabled.
inspected_client(enabled, clients) ==
    IF enabled THEN find_current_client(clients) ELSE {}

\* running_command.split_whitespace().collect::<Vec<_>>()[0] is out of bounds
\* when the trimmed command has no token: the handler panics there.
index_panics(running_command) ==
    running_command # NA /\ split_whitespace(running_command) = <<>>

\* running_command_exe: the text after the last '/' of the first token.
running_command_exe(running_command) ==
    LastOr(split(split_whitespace(running_command)[1], "/"), Empty)

\* is_trigger_cmd without the match on the whole command.
is_trigger_cmd_exe_only(running_command, triggers) ==
    IF running_command # NA
    THEN Contains(triggers, running_command_exe(running_command))
    ELSE FALSE

\* is_trigger_cmd of the ListClients handler.
is_trigger_cmd(running_command, triggers) ==
    IF running_command # NA
    THEN Contains(triggers, running_command)
         \/ Contains(triggers, running_command_exe(running_command))
    ELSE FALSE

\* target_input_mode with the two branches of the verdict swapped.
target_swapped(trigger, mode) ==
    IF ~trigger THEN "Locked"
    ELSE IF mode = "Locked" THEN "Normal"
    ELSE mode

\* target_input_mode without the auto-unlock branch.
target_no_unlock(trigger, mode) == IF trigger THEN "Locked" ELSE mode

\* target_input_mode of the ListClients handler.
target_input_mode(trigger, mode) ==
    IF trigger THEN "Locked"
    ELSE IF mode = "Locked" THEN "Normal"
    ELSE mode

\* switch_guard without the test for the managed pair.
switch_guard_any_mode(mode, target) == mode # target

\* The condition under which switch_to_input_mode is called.
switch_guard(mode, target) ==
    mode # target /\ (mode = "Locked" \/ mode = "Normal")

\* The client lists the host answers with while the focused pane runs cmd.
Client(current, cmd) == [is_current_client |-> current, running_command |-> cmd]
ClientLists(cmd) ==
    { <<>>, <<Client(FALSE, Vim)>>, <<Client(TRUE, Empty)>>, <<Client(TRUE, cmd)>> }

PipePayloads == Option({"enable", "disable", "toggle", "status"})

\* ------------------------------------------------------------ host effects
\* What a call of switch_to_input_mode(target) does on the host: the session's
\* mode changes and a ModeUpdate for it is queued for delivery.
HostAfterSwitch(sw) ==
    IF sw = NoSwitch
    THEN UNCHANGED <<host_mode, mode_updates, mode_writer>>
    ELSE /\ host_mode' = sw
         /\ mode_updates' = Append(mode_updates, sw)
         /\ mode_writer' = "plugin"

\* A handler that calls start_timer: the flag and the host's timers after it.
TimerAfter(arms) ==
    /\ arms => timers < MaxTimers
    /\ timer_scheduled' = (timer_scheduled \/ arms)
    /\ timers' = timers + (IF arms THEN 1 ELSE 0)

\* A handler that calls list_clients() n times (0 or 1).
PendingAfter(answered, n) ==
    /\ pending_list_clients - answered + n <= MaxPending
    /\ pending_list_clients' = pending_list_clients - answered + n

Bit(b) == IF b THEN 1 ELSE 0

\* ---------------------------------------------------------------- handlers
\* update(Event::ModeUpdate(mode_info)): the host delivers its oldest
\* undelivered mode notification.
ModeUpdate ==
    /\ ~panicked
    /\ mode_updates # <<>>
    /\ LET mode == Head(mode_updates)
           arms == start_timer(is_enabled, timer_scheduled)
       IN /\ latest_mode' = mode
          /\ mode_updates' = Tail(mode_updates)
          /\ TimerAfter(arms)
          /\ out' = Out("ModeUpdate", <<>>, NoSwitch, 0, Bit(arms))
    /\ UNCHANGED <<is_enabled, lock_trigger_cmds, latest_tab_pane,
                   latest_running_command, panicked, pending_list_clients,
                   host_mode, mode_writer, pane_command, quiet>>

\* update(Event::InputReceived): a key press; last marks the user's final one,
\* after which the user produces no event.
Input(last) ==
    /\ ~panicked
    /\ ~quiet
    /\ LET arms == start_timer(is_enabled, timer_scheduled)
       IN /\ TimerAfter(arms)
          /\ quiet' = last
          /\ out' = Out("InputReceived", <<>>, NoSwitch, 0, Bit(arms))
    /\ UNCHANGED <<is_enabled, lock_trigger_cmds, latest_tab_pane, latest_mode,
                   latest_running_command, panicked, pending_list_clients,
                   host_mode, mode_updates, mode_writer, pane_command>>

InputReceived == Input(FALSE)

LastInput == Input(TRUE)

\* TabUpdate keeping the tracked pane id when the tab changes.
TabUpdate_keeps_pane ==
    /\ ~panicked
    /\ ~quiet
    /\ \E tab_info \in Option(Tabs) :
         LET tab == get_focused_tab(tab_info)
         IN /\ latest_tab_pane' =
                 IF \E position \in tab : position # latest_tab_pane.tab_pos
                 THEN [tab_pos |-> CHOOSE position \in tab : TRUE,
                       pane_id |-> latest_tab_pane.pane_id]
                 ELSE latest_tab_pane
            /\ out' = Out("TabUpdate", tab_info, NoSwitch, 0, 0)
    /\ UNCHANGED <<is_enabled, lock_trigger_cmds, timer_scheduled, latest_mode,
                   latest_running_command, panicked, timers,
                   pending_list_clients, host_mode, mode_updates, mode_writer,
                   pane_command, quiet>>

\* update(Event::TabUpdate(tab_info))
TabUpdate ==
    /\ ~panicked
    /\ ~quiet
    /\ \E tab_info \in Option(Tabs) :
         LET tab == get_focused_tab(tab_info)
         IN /\ latest_tab_pane' =
                 IF \E position \in tab : position # latest_tab_pane.tab_pos
                 THEN [tab_pos |-> CHOOSE position \in tab : TRUE,
                       pane_id |-> u32_MAX]
                 ELSE latest_tab_pane
            /\ out' = Out("TabUpdate", tab_info, NoSwitch, 0, 0)
    /\ UNCHANGED <<is_enabled, lock_trigger_cmds, timer_scheduled, latest_mode,
                   latest_running_command, panicked, timers,
                   pending_list_clients, host_mode, mode_updates, mode_writer,
                   pane_command, quiet>>

\* update(Event::PaneUpdate(pane_manifest))
PaneUpdate ==
    /\ ~panicked
    /\ ~quiet
    /\ \E pane_manifest \in [Tabs -> Option(PaneIds)] :
         LET focused_pane == get_focused_pane(latest_tab_pane.tab_pos, pane_manifest)
             changed == \E id \in focused_pane : id # latest_tab_pane.pane_id
         IN /\ latest_tab_pane' =
                 IF changed
                 THEN [tab_pos |-> latest_tab_pane.tab_pos,
                       pane_id |-> CHOOSE id \in focused_pane : TRUE]
                 ELSE latest_tab_pane
            /\ PendingAfter(0, Bit(changed))
            /\ out' = Out("PaneUpdate", pane_manifest, NoSwitch, Bit(changed), 0)
    /\ UNCHANGED <<is_enabled, lock_trigger_cmds, timer_scheduled, latest_mode,
                   latest_running_command, panicked, timers, host_mode,
                   mode_updates, mode_writer, pane_command, quiet>>

\* update(Event::ListClients(clients)): the host answers one list_clients
\* request.
ListClients(clients) ==
    /\ ~panicked
    /\ pending_list_clients > 0
    /\ LET current_client == inspected_client(is_enabled, clients)
           running_command ==
               Trim((CHOOSE c \in current_client : TRUE).running_command)
       IN IF current_client = {}
          THEN /\ PendingAfter(1, 0)
               /\ out' = Out("ListClients", clients, NoSwitch, 0, 0)
               /\ UNCHANGED <<timer_scheduled, latest_running_command, panicked,
                              timers, host_mode, mode_updates, mode_writer>>
          ELSE IF index_panics(running_command)
          THEN /\ panicked' = TRUE
               /\ PendingAfter(1, 0)
               /\ out' = Out("ListClients", clients, NoSwitch, 0, 0)
               /\ UNCHANGED <<timer_scheduled, latest_running_command, timers,
                              host_mode, mode_updates, mode_writer>>
          ELSE LET trigger == is_trigger_cmd(running_command, lock_trigger_cmds)
                   target == target_input_mode(trigger, latest_mode)
                   sw == IF switch_guard(latest_mode, target) THEN target ELSE NoSwitch
                   arms == running_command # latest_running_command
                           /\ start_timer(is_enabled, timer_scheduled)
               IN /\ sw # NoSwitch => Len(mode_updates) < MaxModeQueue
                  /\ HostAfterSwitch(sw)
                  /\ latest_running_command' = running_command
                  /\ TimerAfter(arms)
                  /\ PendingAfter(1, 0)
                  /\ out' = Out("ListClients", clients, sw, 0, Bit(arms))
                  /\ UNCHANGED panicked
    /\ UNCHANGED <<is_enabled, lock_trigger_cmds, latest_tab_pane, latest_mode,
                   pane_command, quiet>>

\* The host's answer lists the clients as they are now; once the user is
\* quiet it always lists the focused client.
ListClientsAnswer ==
    \E clients \in ClientLists(pane_command) :
        /\ quiet => clients = <<Client(TRUE, pane_command)>>
        /\ ListClients(clients)

\* Timer doing its work only while enabled.
Timer_only_when_enabled ==
    /\ ~panicked
    /\ timers > 0
    /\ timers' = timers - 1
    /\ PendingAfter(0, Bit(is_enabled))
    /\ timer_scheduled' = (IF is_enabled THEN FALSE ELSE timer_scheduled)
    /\ out' = Out("Timer", <<>>, NoSwitch, Bit(is_enabled), 0)
    /\ UNCHANGED <<is_enabled, lock_trigger_cmds, latest_tab_pane, latest_mode,
                   latest_running_command, panicked, host_mode, mode_updates,
                   mode_writer, pane_command, quiet>>

\* update(Event::Timer(_)): one requested timer fires.
Timer ==
    /\ ~panicked
    /\ timers > 0
    /\ timers' = timers - 1
    /\ PendingAfter(0, 1)
    /\ timer_scheduled' = FALSE
    /\ out' = Out("Timer", <<>>, NoSwitch, 1, 0)
    /\ UNCHANGED <<is_enabled, lock_trigger_cmds, latest_tab_pane, latest_mode,
                   latest_running_command, panicked, host_mode, mode_updates,
                   mode_writer, pane_command, quiet>>

\* pipe_enabled with the "disable" arm inverting the flag as "toggle" does.
pipe_enabled_disable_flips(payload, enabled) ==
    IF payload = {"enable"} THEN TRUE
    ELSE IF payload = {"disable"} THEN ~enabled
    ELSE IF payload = {"toggle"} THEN ~enabled
    ELSE enabled

\* The value of is_enabled after pipe() has read the payload.
pipe_enabled(payload, enabled) ==
    IF payload = {"enable"} THEN TRUE
    ELSE IF payload = {"disable"} THEN FALSE
    ELSE IF payload = {"toggle"} THEN ~enabled
    ELSE enabled

\* pipe_step without the is_enabled test around its two calls.
pipe_step_unconditional(payload, enabled, scheduled) ==
    LET en == pipe_enabled(payload, enabled)
        arms == start_timer(TRUE, scheduled)
    IN [is_enabled |-> en,
        timer_scheduled |-> (scheduled \/ arms),
        list_clients |-> 1,
        set_timeout |-> Bit(arms)]

\* What pipe() does to the controller and asks of the host: the payload sets
\* is_enabled, then, if enabled, list_clients() and start_timer().
pipe_step(payload, enabled, scheduled) ==
    LET en == pipe_enabled(payload, enabled)
        arms == en /\ start_timer(en, scheduled)
    IN [is_enabled |-> en,
        timer_scheduled |-> (scheduled \/ arms),
        list_clients |-> Bit(en),
        set_timeout |-> Bit(arms)]

\* pipe(pipe_message)
Pipe ==
    /\ ~panicked
    /\ ~quiet
    /\ \E payload \in PipePayloads :
         LET step == pipe_step(payload, is_enabled, timer_scheduled)
         IN /\ is_enabled' = step.is_enabled
            /\ PendingAfter(0, step.list_clients)
            /\ TimerAfter(step.set_timeout = 1)
            /\ out' = Out("Pipe", payload, NoSwitch, step.list_clients,
                          step.set_timeout)
    /\ UNCHANGED <<lock_trigger_cmds, latest_tab_pane, latest_mode,
                   latest_running_command, panicked, host_mode, mode_updates,
                   mode_writer, pane_command, quiet>>

\* ------------------------------------------------------------- environment
\* The user changes the input mode by hand; the host will notify the plugin.
UserSwitchesMode ==
    /\ ~panicked
    /\ ~quiet
    /\ Len(mode_updates) < MaxModeQueue
    /\ \E mode \in InputMode \ {host_mode} :
         /\ host_mode' = mode
         /\ mode_updates' = Append(mode_updates, mode)
         /\ out' = Out("UserSwitchesMode", <<>>, NoSwitch, 0, 0)
    /\ mode_writer' = "user"
    /\ UNCHANGED <<plugin_vars, panicked, timers, pending_list_clients,
                   pane_command, quiet>>

\* The focused pane starts or ends a program.
CommandChanges ==
    /\ ~panicked
    /\ ~quiet
    /\ \E cmd \in Commands \ {pane_command} :
         /\ pane_command' = cmd
         /\ out' = Out("CommandChanges", <<>>, NoSwitch, 0, 0)
    /\ UNCHANGED <<plugin_vars, panicked, timers, pending_list_clients,
                   host_mode, mode_updates, mode_writer, quiet>>

\* The decision loop: the handlers that arm the timer, inspect and switch,
\* with a user who types, changes the mode by hand, starts and ends programs
\* and sends pipe messages.  The tracked pane stays where it is.
Next ==
    \/ ModeUpdate
    \/ InputReceived
    \/ ListClientsAnswer
    \/ Timer
    \/ Pipe
    \/ UserSwitchesMode
    \/ CommandChanges

Spec == Init /\ [][Next]_vars

\* Every handler, the focus tracker included, with a user who moves the
\* focus, types and sends pipe messages; the mode changes only by the
\* controller's own switches and the running command stays what it is.
FocusNext ==
    \/ TabUpdate
    \/ PaneUpdate
    \/ ModeUpdate
    \/ InputReceived
    \/ ListClientsAnswer
    \/ Timer
    \/ Pipe

FocusSpec == Init /\ [][FocusNext]_vars

\* The decision loop with a user who at some point presses a last key and
\* then leaves the session alone.  The host fires every timer, answers every
\* request and delivers every mode notification.
LiveNext ==
    \/ ModeUpdate
    \/ InputReceived
    \/ LastInput
    \/ ListClientsAnswer
    \/ Timer
    \/ Pipe
    \/ UserSwitchesMode
    \/ CommandChanges

LiveSpec ==
    /\ Init
    /\ [][LiveNext]_vars
    /\ WF_vars(Timer)
    /\ WF_vars(ListClientsAnswer)
    /\ WF_vars(ModeUpdate)

\* ------------------------------------------------- the classifier alone
\* The characters of a reported command: the three of the "N/A" sentinel, of
\* which "N" and "A" also serve as letters of program names, and the blank.
ClassifyAlphabet == {"N", "/", "A", " "}

\* The characters of the "triggers" configuration value: those and the
\* separator.
ConfigAlphabet == ClassifyAlphabet \cup {"|"}

\* The strings of at most n characters over alphabet.
Strings(alphabet, n) == UNION {[1..k -> alphabet] : k \in 0..n}

ReportedCommands == Strings(ClassifyAlphabet, MaxCmdLen)

TriggerConfigs == Strings(ConfigAlphabet, MaxConfigLen)

\* load_configuration: triggers.split('|').map(|s| s.trim()).collect()
load_triggers(config) ==
    LET parts == split(config, "|")
    IN [i \in 1..Len(parts) |-> Trim(parts[i])]

\* The controller as load() with is_enabled=true and a "triggers" value,
\* followed by a first pipe "enable", leaves it: one inspection request
\* and the timer outstanding, while the focused pane runs any command.
ClassifyInit ==
    /\ is_enabled = TRUE
    /\ \E config \in TriggerConfigs : lock_trigger_cmds = load_triggers(config)
    /\ timer_scheduled = TRUE
    /\ latest_tab_pane = [tab_pos |-> usize_MAX, pane_id |-> u32_MAX]
    /\ latest_mode = "Normal"
    /\ latest_running_command = Empty
    /\ panicked = FALSE
    /\ timers = 1
    /\ pending_list_clients = 1
    /\ host_mode = "Normal"
    /\ mode_updates = <<>>
    /\ mode_writer = "host"
    /\ pane_command \in ReportedCommands
    /\ quiet = FALSE
    /\ out = Out("Pipe", {"enable"}, NoSwitch, 1, 1)

\* The host answers the inspection request.
ClassifyNext == ListClientsAnswer

ClassifySpec == ClassifyInit /\ [][ClassifyNext]_vars

TypeOK ==
    /\ is_enabled \in BOOLEAN
    /\ timer_scheduled \in BOOLEAN
    /\ latest_mode \in InputMode
    /\ host_mode \in InputMode
    /\ timers \in 0..MaxTimers
    /\ pending_list_clients \in 0..MaxPending
    /\ Len(mode_updates) <= MaxModeQueue

\* ------------------------------------------------------------------ claims
\* The answer that lists the focused client with the pane's present command.
FocusedAnswer == <<Client(TRUE, pane_command)>>

\* The last step handled a ListClients answer up to the verdict: enabled, a
\* current client with a command, no panic.
Inspected ==
    /\ out.kind = "ListClients"
    /\ is_enabled
    /\ out.arg = FocusedAnswer
    /\ ~panicked

\* C1: at most one timer requested with set_timeout is outstanding at any
\* time, whatever events arrived; an arming event that finds a timer
\* scheduled requests no second one.
C1_AtMostOneTimer == timers <= 1

\* C1 witness: an arming event was handled while enabled with a timer
\* outstanding, and it requested none.
C1_ArmingAbsorbed ==
    /\ out.kind \in {"ModeUpdate", "InputReceived", "Pipe"}
    /\ is_enabled
    /\ out.set_timeout = 0
    /\ timers = 1

\* C2: the controller never issues two consecutive identical mode-switch
\* commands: two steps in a row that both switch have different targets.
C2_NoRepeatedSwitch ==
    [][(out.switch # NoSwitch /\ out'.switch # NoSwitch)
         => out'.switch # out.switch]_vars

\* C3 as claimed: while the session is in a mode the user set, and the
\* controller knows that mode, no step issues a switch to another mode.
C3_UserModeRespected ==
    [][(mode_writer = "user" /\ latest_mode = host_mode)
         => out'.switch \in {NoSwitch, host_mode}]_vars

\* C3 as amended: a mode the user set, and that the controller knows, is
\* overridden only inside the managed pair and only against the verdict: a
\* user-set Locked is switched to Normal when a non-trigger command is
\* reported, a user-set Normal is switched to Locked when a trigger command
\* is reported; a user-set mode outside the pair is never overridden.
C3_UserModeOverriddenOnlyInPair ==
    [][(mode_writer = "user" /\ latest_mode = host_mode /\ out'.switch # NoSwitch)
         => \/ /\ host_mode = "Locked"
               /\ out'.switch = "Normal"
               /\ ~is_trigger_cmd(Trim(pane_command), lock_trigger_cmds)
            \/ /\ host_mode = "Normal"
               /\ out'.switch = "Locked"
               /\ is_trigger_cmd(Trim(pane_command), lock_trigger_cmds)]_vars

\* C3 witness: a trigger command was inspected while the session was in a
\* user-set mode outside the pair, known to the controller.
C3_UserThirdModeInspected ==
    /\ Inspected
    /\ pane_command = UsrBinVimFile
    /\ mode_writer = "user"
    /\ host_mode = "Pane"
    /\ latest_mode = "Pane"

\* C4: a switch command is issued only in a step whose last known mode is
\* Locked or Normal; with any third mode an inspection result issues none.
C4_SwitchOnlyFromManagedPair ==
    [][out'.switch # NoSwitch => latest_mode \in {"Locked", "Normal"}]_vars

\* C4 witness: a trigger command was inspected with a third last known mode.
C4_ThirdModeInspected ==
    /\ Inspected
    /\ pane_command = UsrBinVimFile
    /\ latest_mode = "Pane"

\* C5: after a "disable" pipe message, and until it is enabled again, the
\* controller requests no timer and no inspection: the event that follows
\* the disable makes neither request.
C5_DisabledRequestsNothing ==
    [][(out.kind = "Pipe" /\ out.arg = {"disable"} /\ ~is_enabled')
         => (out'.list_clients = 0 /\ out'.set_timeout = 0)]_vars

\* C6: no switch command is issued in a step in which the controller is
\* disabled, nor by the step that disables it.
C6_NoSwitchWhileDisabled ==
    [][(~is_enabled \/ ~is_enabled') => out'.switch = NoSwitch]_vars

\* C6 witness: while disabled and believing the mode Normal, the controller
\* received an answer listing the focused client with a trigger command.
C6_DisabledGotTrigger ==
    /\ out.kind = "ListClients"
    /\ out.arg = FocusedAnswer
    /\ pane_command = UsrBinVimFile
    /\ ~is_enabled
    /\ latest_mode = "Normal"

\* C7: no single event crashes the controller: no handler panics.
C7_NoPanic == ~panicked

\* C8: two pane notifications that both change the focused pane, arriving
\* one after the other while enabled and while the timer is outstanding,
\* lead to one inspection request, not two.
C8_OneInspectionPerWindow ==
    [][(/\ out.kind = "PaneUpdate" /\ out.list_clients = 1
        /\ out'.kind = "PaneUpdate"
        /\ is_enabled /\ timers = 1 /\ timers' = 1)
         => out'.list_clients = 0]_vars

\* C9: an inspection result handled while enabled with a last known mode in
\* the pair issues: trigger and Normal, a switch to Locked; non-trigger and
\* Locked, a switch to Normal; otherwise nothing.  Scenario A is
\* "/usr/bin/vim file.txt" with Normal, scenario B is "N/A" with Locked.
C9_DecisionTable ==
    [][(Inspected' /\ latest_mode \in {"Normal", "Locked"})
         => LET trigger == is_trigger_cmd(Trim(pane_command), lock_trigger_cmds)
            IN /\ (trigger /\ latest_mode = "Normal") => out'.switch = "Locked"
               /\ (~trigger /\ latest_mode = "Locked") => out'.switch = "Normal"
               /\ (trigger /\ latest_mode = "Locked") => out'.switch = NoSwitch
               /\ (~trigger /\ latest_mode = "Normal") => out'.switch = NoSwitch
               /\ (pane_command = UsrBinVimFile /\ latest_mode = "Normal")
                    => out'.switch = "Locked"
               /\ (pane_command = NA /\ latest_mode = "Locked")
                    => out'.switch = "Normal"]_vars

\* C9 witness: scenario B happened: "N/A" was inspected with the default
\* triggers and the controller switched to Normal.
C9_ScenarioB ==
    /\ Inspected
    /\ pane_command = NA
    /\ lock_trigger_cmds = <<Vim, Nvim>>
    /\ out.switch = "Normal"

\* Every mode in play is Normal or Locked: the last known one, the session's,
\* and those of the notifications still to be delivered.
ManagedModes ==
    /\ latest_mode \in {"Normal", "Locked"}
    /\ host_mode \in {"Normal", "Locked"}
    /\ \A i \in 1..Len(mode_updates) : mode_updates[i] \in {"Normal", "Locked"}

\* The verdict the running command of the focused pane deserves.
PaneRunsTrigger ==
    /\ ~index_panics(Trim(pane_command))
    /\ is_trigger_cmd(Trim(pane_command), lock_trigger_cmds)

\* Nothing is left to happen: the user is quiet and no timer, answer or
\* mode notification is outstanding, or the plugin is gone.
Settled ==
    /\ quiet
    /\ \/ panicked
       \/ (timers = 0 /\ pending_list_clients = 0 /\ mode_updates = <<>>)

\* C10: enabled, with modes in the managed pair, once the user has pressed
\* the last key and the command no longer changes, the session's mode
\* becomes Locked if the command is a trigger, and Normal if it is not and
\* the mode was Locked: when nothing is left to happen, the session's mode
\* is the one the command deserves.
C10_LockFollowsCommand ==
    (Settled /\ is_enabled /\ ManagedModes)
        => host_mode = (IF PaneRunsTrigger THEN "Locked" ELSE "Normal")

\* The three commands of the pipe interface.
PipeCommands == {{"enable"}, {"disable"}, {"toggle"}}

\* C11: a pipe message whose payload is none of the three commands, or that
\* has no payload, is ignored: the step changes no controller state and makes
\* no host request, enabled or not.
C11_UnknownPayloadIgnored ==
    [][(out'.kind = "Pipe" /\ out'.arg \notin PipeCommands)
         => /\ plugin_vars' = plugin_vars
            /\ out'.list_clients = 0
            /\ out'.set_timeout = 0
            /\ out'.switch = NoSwitch]_vars

\* C12: a pipe step that enables ("enable", or "toggle" while disabled)
\* calls list_clients exactly once and leaves a timer scheduled, requesting
\* it unless one was scheduled already; a pipe step that disables
\* ("disable", or "toggle" while enabled) makes no request and arms nothing.
C12_EnableInspectsAndArms ==
    [][out'.kind = "Pipe"
         => /\ (out'.arg = {"enable"} \/ (out'.arg = {"toggle"} /\ ~is_enabled))
                 => /\ is_enabled'
                    /\ out'.list_clients = 1
                    /\ pending_list_clients' = pending_list_clients + 1
                    /\ timer_scheduled'
                    /\ timers' >= 1
                    /\ out'.set_timeout = Bit(~timer_scheduled)
            /\ (out'.arg = {"disable"} \/ (out'.arg = {"toggle"} /\ is_enabled))
                 => /\ ~is_enabled'
                    /\ out'.list_clients = 0
                    /\ out'.set_timeout = 0
                    /\ pending_list_clients' = pending_list_clients
                    /\ timers' = timers
                    /\ timer_scheduled' = timer_scheduled]_vars

\* C12 witness: a "toggle" enabled the controller: it inspected once and
\* requested the timer.
C12_ToggleEnabled ==
    /\ out.kind = "Pipe"
    /\ out.arg = {"toggle"}
    /\ is_enabled
    /\ out.list_clients = 1
    /\ out.set_timeout = 1
    /\ timers = 1

\* The controller state pipe() leaves behind.
PipeState(step) == <<step.is_enabled, step.timer_scheduled>>

\* The controller state after one delivery of payload in the present state.
PipeOnce(payload) == pipe_step(payload, is_enabled, timer_scheduled)

\* The controller state after a second delivery right after the first.
PipeTwice(payload) ==
    pipe_step(payload, PipeOnce(payload).is_enabled, PipeOnce(payload).timer_scheduled)

\* C13 as claimed: in every reachable state, each of "enable", "disable" and
\* "toggle" delivered twice in a row leaves the controller in the state one
\* delivery leaves it in.
C13_AllIdempotent ==
    \A payload \in PipeCommands :
        PipeState(PipeTwice(payload)) = PipeState(PipeOnce(payload))

\* C13 as amended: "enable" and "disable" are idempotent; "toggle" is not:
\* one delivery inverts is_enabled and a second one restores it.
C13_EnableDisableIdempotent ==
    /\ \A payload \in {{"enable"}, {"disable"}} :
          PipeState(PipeTwice(payload)) = PipeState(PipeOnce(payload))
    /\ PipeOnce({"toggle"}).is_enabled = ~is_enabled
    /\ PipeTwice({"toggle"}).is_enabled = is_enabled

\* C13 witness: a "disable" was delivered while a timer was outstanding, so
\* that the state a second one must preserve is disabled with the flag set.
C13_DisabledWithTimer ==
    /\ out.kind = "Pipe"
    /\ out.arg = {"disable"}
    /\ ~is_enabled
    /\ timer_scheduled

\* The set of a trigger list's entries.
TriggerSet(triggers) == {triggers[i] : i \in 1..Len(triggers)}

\* The claim's reference: c without the blanks around it.
RefTrimmed(c) ==
    LET solid == {i \in 1..Len(c) : c[i] # " "}
    IN IF solid = {} THEN <<>>
       ELSE SubSeq(c, CHOOSE i \in solid : \A j \in solid : i <= j,
                      CHOOSE i \in solid : \A j \in solid : i >= j)

\* The claim's reference: the first whitespace-delimited token of c.
RefFirstToken(c) ==
    LET t == RefTrimmed(c)
        blanks == {i \in 1..Len(t) : t[i] = " "}
    IN IF blanks = {} THEN t
       ELSE SubSeq(t, 1, (CHOOSE i \in blanks : \A j \in blanks : i <= j) - 1)

\* The claim's reference: the part of the first token after its last '/'.
RefBasename(c) ==
    LET token == RefFirstToken(c)
        slashes == {i \in 1..Len(token) : token[i] = "/"}
    IN IF slashes = {} THEN token
       ELSE SubSeq(token, (CHOOSE i \in slashes : \A j \in slashes : i >= j) + 1,
                   Len(token))

\* The claim's reference verdict; the sentinel is recognised with blanks
\* around it too.
RefClassify(c, triggers) ==
    /\ RefTrimmed(c) # NA
    /\ \/ RefTrimmed(c) \in TriggerSet(triggers)
       \/ RefBasename(c) \in TriggerSet(triggers)

\* The answer listing the focused client was handled while enabled with the
\* last known mode Normal, where the verdict shows as a switch to Locked.
VerdictShown ==
    /\ out.kind = "ListClients"
    /\ out.arg = FocusedAnswer
    /\ is_enabled
    /\ latest_mode = "Normal"

\* C14: for every non-empty reported command c and trigger list T over the
\* alphabet, the handler reaches a verdict, and it is the reference's: false
\* for the "N/A" sentinel, otherwise true exactly when the trimmed c or the
\* basename of its first token is in T.
C14_ClassifierAgrees ==
    (VerdictShown /\ pane_command # Empty)
        => /\ ~panicked
           /\ (out.switch = "Locked") <=> RefClassify(pane_command, lock_trigger_cmds)

\* C15 as claimed: whenever the reported command is verbatim an entry of T,
\* the verdict is true.
C15_VerbatimMemberLocks ==
    (VerdictShown /\ Contains(lock_trigger_cmds, pane_command))
        => out.switch = "Locked"

\* C15 as amended: whenever the reported command is verbatim an entry of T
\* and is neither the "N/A" sentinel nor the empty string, the verdict is
\* true.
C15_VerbatimCommandLocks ==
    (/\ VerdictShown
     /\ Contains(lock_trigger_cmds, pane_command)
     /\ pane_command # NA
     /\ pane_command # Empty)
        => out.switch = "Locked"

\* C15 witness: a command with an argument was an entry of T, its basename
\* was not, and the verdict was true.
C15_WholeCommandMatched ==
    /\ VerdictShown
    /\ pane_command = <<"A", " ", "N">>
    /\ lock_trigger_cmds = <<pane_command>>
    /\ out.switch = "Locked"

\* The focused pane a manifest lists under the tracked tab, if any.
ListedUnderTrackedTab(pane_manifest) ==
    IF latest_tab_pane.tab_pos \in Tabs
    THEN pane_manifest[latest_tab_pane.tab_pos]
    ELSE {}

\* C16: a pane notification never changes the tracked tab position; the
\* tracked pane id after it is the focused pane listed under the tracked
\* tab, whatever other tabs list; when the tracked tab lists no focused
\* pane, the location is unchanged and no inspection is requested.
C16_PaneUpdateFrame ==
    [][out'.kind = "PaneUpdate"
         => LET listed == ListedUnderTrackedTab(out'.arg)
            IN /\ latest_tab_pane'.tab_pos = latest_tab_pane.tab_pos
               /\ listed # {} => latest_tab_pane'.pane_id \in listed
               /\ listed = {} => /\ latest_tab_pane' = latest_tab_pane
                                 /\ out'.list_clients = 0]_vars

\* C16 witness: with tab 0 and pane 1 tracked, a pane notification listed no
\* focused pane under tab 0 and pane 2 under tab 1; nothing changed.
C16_OtherTabIgnored ==
    /\ out.kind = "PaneUpdate"
    /\ latest_tab_pane = [tab_pos |-> 0, pane_id |-> 1]
    /\ out.arg[0] = {}
    /\ out.arg[1] = {2}
    /\ out.list_clients = 0

\* C17: enabled and with no timer outstanding, a mode-update, a raw-input
\* and a pane notification that changes the tracked pane each end with the
\* timer scheduled.
C17_ArmingEvents ==
    [][(/\ is_enabled /\ ~timer_scheduled /\ timers = 0
        /\ \/ out'.kind \in {"ModeUpdate", "InputReceived"}
           \/ /\ out'.kind = "PaneUpdate"
              /\ latest_tab_pane'.pane_id # latest_tab_pane.pane_id)
         => (timer_scheduled' /\ timers' = 1)]_vars

\* C18: a tab notification whose focused tab differs from the tracked one
\* makes the location that tab with the pane unset; with the same tab or no
\* focused tab the location is unchanged.  While the pane is unset, a pane
\* notification listing a focused pane under the tracked tab records it and
\* requests an inspection, whatever pane id was tracked before the tab
\* changed.
C18_TabChangeResetsPane ==
    [][/\ out'.kind = "TabUpdate"
            => latest_tab_pane' =
                 IF out'.arg # {} /\ out'.arg # {latest_tab_pane.tab_pos}
                 THEN [tab_pos |-> CHOOSE position \in out'.arg : TRUE,
                       pane_id |-> u32_MAX]
                 ELSE latest_tab_pane
       /\ (/\ out'.kind = "PaneUpdate"
           /\ latest_tab_pane.pane_id = u32_MAX
           /\ ListedUnderTrackedTab(out'.arg) # {})
            => /\ out'.list_clients = 1
               /\ pending_list_clients' = pending_list_clients + 1
               /\ latest_tab_pane'.pane_id \in ListedUnderTrackedTab(out'.arg)]_vars

\* C18 witness: with tab 1 tracked, a pane notification that lists pane 1 as
\* focused under tab 0 and under tab 1 counted as a focus change to pane 1.
C18_SamePaneIdInNewTab ==
    /\ out.kind = "PaneUpdate"
    /\ out.list_clients = 1
    /\ latest_tab_pane = [tab_pos |-> 1, pane_id |-> 1]
    /\ out.arg[0] = {1}
    /\ out.arg[1] = {1}

\* C19: timer_scheduled mirrors the host's timer: after every step it is
\* true exactly when one requested timer has not fired, and false exactly
\* when none is outstanding, also while disabled; every Timer step clears
\* it and requests one inspection.
C19_FlagMirrorsTimer ==
    [][/\ timers' = Bit(timer_scheduled')
       /\ out'.kind = "Timer"
            => /\ ~timer_scheduled'
               /\ out'.list_clients = 1
               /\ pending_list_clients' = pending_list_clients + 1]_vars

\* C19 witness: a timer requested while enabled fired after a "disable".
C19_TimerFiredWhileDisabled ==
    /\ out.kind = "Timer"
    /\ ~is_enabled
    /\ ~timer_scheduled
    /\ timers = 0

\* An inspection with this verdict and this last known mode would switch.
WouldSwitch(trigger, mode) ==
    switch_guard(mode, target_input_mode(trigger, mode))

\* More than the second part of Variant can be.
VariantBase == 3 * MaxModeQueue + 2 * MaxTimers + MaxPending + 3

\* What is left of the poll loop once the user is quiet.  First, the modes
\* from which an inspection switches: the undelivered ones twice, the last
\* known one once.  Then the work outstanding: mode notifications (each can
\* arm a timer; not counted while inspections add to them), timers (each
\* requests an inspection), inspection requests, and the one re-arming a
\* command not yet recorded causes.
Variant ==
    LET trigger == PaneRunsTrigger
        switching ==
            2 * Cardinality({i \in 1..Len(mode_updates) :
                               WouldSwitch(trigger, mode_updates[i])})
            + Bit(WouldSwitch(trigger, latest_mode))
        rearm == Bit(is_enabled /\ latest_running_command # Trim(pane_command))
        outstanding ==
            (IF WouldSwitch(trigger, latest_mode) THEN 0 ELSE 3 * Len(mode_updates))
            + 2 * timers + pending_list_clients + 2 * rearm
    IN VariantBase * switching + outstanding

====
